---- MODULE Spec2Model ----
(***************************************************************************)
(* Model of class Token (src/token.py): the two accumulators attributes    *)
(* and transactions, the two collectors parseAttributes and                *)
(* parseTransactions, the two clean operations and the four exports.       *)
(*                                                                         *)
(* The program is single-threaded: while a collector call is running (pc   *)
(* names it) no other operation starts.  Every external request of a       *)
(* collector (one metadata fetch, one explorer page) is one step.          *)
(***************************************************************************)
EXTENDS Integers, Sequences, FiniteSets, TLC

\* ---------------------------------------------------------------- bounds
MaxId        == 2   \* token ids 0..MaxId; also the collection's supply
MaxTraits    == 2   \* traits per metadata document
MaxTransfers == 2   \* transfers of the contract on the chain
MaxRecords   == 2   \* records the two lists hold together before memory
                    \* runs out (list.append then raises MemoryError)
RequestWrap  == 3   \* page requests of a call are counted modulo this

\* ------------------------------------------------------ program constants
MaxStep      == 10000    \* largest transactionsStep accepted
Unspecified  == 0 - 9999 \* default of end / endBlock

\* ------------------------------------------------------------ environment
Hashes      == 1..MaxTransfers
ChainValues == {0, 5}
Names       == {"Ape"}
Steps       == {1, 2, MaxStep, MaxStep + 1}
Folders     == {<<>>, <<"o">>, <<"o", "/">>}

Min(a, b) == IF a < b THEN a ELSE b

\* value the explorer reports for a transfer (never the chain's value)
ExplorerValue(h) == IF h % 2 = 1 THEN 9 ELSE 0

\* block of the transfer with hash h: blocks 1, 2, 2, 3, 3, ...
BlockOf(h) == (h + 2) \div 2

\* web3.eth.block_number: the block of the last transfer
block_number == BlockOf(MaxTransfers)

StartBlocks == {0, block_number}
EndBlocks   == {block_number, Unspecified}

\* the explorer's data at the time of a call: the first n transfers of the
\* contract, ordered by block
TransferLists ==
  { [k \in 1..n |-> [hash |-> k, blockNumber |-> BlockOf(k),
                      value |-> ExplorerValue(k)]] : n \in 0..MaxTransfers }

RECURSIVE SeqsUpTo(_, _)
SeqsUpTo(S, n) ==
  IF n = 0 THEN {<<>>}
  ELSE LET shorter == SeqsUpTo(S, n - 1)
       IN  shorter \cup {Append(s, x) : s \in shorter, x \in S}

Traits     == { [trait_type |-> "Background", value |-> "Blue"],
                [trait_type |-> "Background", value |-> "Red"],
                [trait_type |-> "Name", value |-> "Blue"] }
TraitLists == SeqsUpTo(Traits, MaxTraits)

\* what one metadata request can produce: the transport aborts ("abort"),
\* the body is not JSON ("nojson"), or a document with or without the
\* attributes and name fields
Doc(kind, hasAttributes, attrs, hasName, name) ==
  [kind |-> kind, hasAttributes |-> hasAttributes, attributes |-> attrs,
   hasName |-> hasName, name |-> name]
Docs ==
  {Doc("abort", FALSE, <<>>, FALSE, ""), Doc("nojson", FALSE, <<>>, FALSE, "")}
  \cup {Doc("json", TRUE, t, TRUE, n) : t \in TraitLists, n \in Names}
  \cup {Doc("json", TRUE, t, FALSE, "") : t \in TraitLists}
  \cup {Doc("json", FALSE, <<>>, TRUE, n) : n \in Names}
  \cup {Doc("json", FALSE, <<>>, FALSE, "")}

NoPage == [status |-> "none", result |-> <<>>]
NoFile == [folder |-> <<>>, name |-> "none"]
Result(op, res) == [op |-> op, result |-> res]

VARIABLES
  chainValue,        \* web3.eth.getTransaction(hash)['value'], per hash
  attributes,        \* self.attributes
  transactions,      \* self.transactions
  pc,                \* "idle", or the collector call that is running
  start, end, i,     \* parseAttributes: arguments and current token id
  transfers,         \* the transfer list the explorer serves to the call
  transactionsStep, startBlock, endBlock,   \* parseTransactions
  r,                 \* parseTransactions: the explorer's last response
  requests,          \* page requests the call has issued (mod RequestWrap)
  base,              \* length of the collector's list when the call began
  outcome,           \* [op, result] of the current / last operation
  warned,            \* warnings.warn message of the last step, or "none"
  written            \* file the last operation appended to, or NoFile

accs   == <<attributes, transactions>>
aLoc   == <<start, end, i>>
tLoc   == <<transfers, transactionsStep, startBlock, endBlock, r, requests>>
vars   == <<chainValue, attributes, transactions, pc, start, end, i, transfers,
            transactionsStep, startBlock, endBlock, r, requests, base, outcome,
            warned, written>>

Init ==
  /\ chainValue \in [Hashes -> ChainValues]
  /\ attributes = <<>>
  /\ transactions = <<>>
  /\ pc = "idle"
  /\ start = 0 /\ end = 0 /\ i = 0
  /\ transfers = <<>>
  /\ transactionsStep = 0 /\ startBlock = 0 /\ endBlock = 0
  /\ r = NoPage /\ requests = 0
  /\ base = 0
  /\ outcome = Result("__init__", "returned")
  /\ warned = "none"
  /\ written = NoFile

\* the locals of a call are gone when it returns or raises
NoLocals ==
  /\ start' = 0 /\ end' = 0 /\ i' = 0
  /\ transfers' = <<>>
  /\ transactionsStep' = 0 /\ startBlock' = 0 /\ endBlock' = 0
  /\ r' = NoPage /\ requests' = 0

\* an operation ends: it returns ("returned") or raises (the error's name)
Finish(op, res) ==
  /\ pc' = "idle"
  /\ outcome' = Result(op, res)
  /\ NoLocals

MemoryFull == Len(attributes) + Len(transactions) >= MaxRecords

\* -------------------------------------------------------------- clean
cleanAttributesBoth ==
  /\ pc = "idle"
  /\ attributes' = <<>> /\ transactions' = <<>>
  /\ Finish("cleanAttributes", "returned") /\ base' = 0
  /\ warned' = "none" /\ written' = NoFile
  /\ UNCHANGED <<chainValue>>

cleanAttributes ==
  /\ pc = "idle"
  /\ attributes' = <<>>
  /\ Finish("cleanAttributes", "returned") /\ base' = 0
  /\ warned' = "none" /\ written' = NoFile
  /\ UNCHANGED <<chainValue, transactions>>

cleanTransactions ==
  /\ pc = "idle"
  /\ transactions' = <<>>
  /\ Finish("cleanTransactions", "returned") /\ base' = 0
  /\ warned' = "none" /\ written' = NoFile
  /\ UNCHANGED <<chainValue, attributes>>

\* ------------------------------------------------------ parseAttributes
maxTokens == MaxId

\* {d['trait_type']: d['value']}
TraitDict(d) == [k \in {d.trait_type} |-> d.value]

\* dict(ChainMap(*maps)): a key is looked up in the maps from the first to
\* the last and the first map that has it answers
ChainMapDict(maps) ==
  LET keys == UNION {DOMAIN maps[j] : j \in 1..Len(maps)}
      holder(k) == CHOOSE j \in 1..Len(maps) :
                     /\ k \in DOMAIN maps[j]
                     /\ \A j2 \in 1..(j - 1) : k \notin DOMAIN maps[j2]
  IN  [k \in keys |-> maps[holder(k)][k]]

\* r['attributes'].append({'trait_type': 'Name', 'value': r['name']})
WithName(doc) ==
  Append(doc.attributes, [trait_type |-> "Name", value |-> doc.name])

\* [dict(ChainMap(*[{d['trait_type']: d['value']} for d in r['attributes']]))]
Flatten(doc) ==
  LET traits == WithName(doc)
  IN  << ChainMapDict([j \in 1..Len(traits) |-> TraitDict(traits[j])]) >>

\* range(start, end + 1) moves to the next id, or is exhausted
AttrNext ==
  IF i + 1 > end
    THEN Finish("parseAttributes", "returned")
    ELSE i' = i + 1 /\ UNCHANGED <<pc, outcome, start, end, tLoc>>

\* self.attributes.append(...), then on to the next id
AttrAppend(doc) ==
  IF MemoryFull
    THEN /\ Finish("parseAttributes", "MemoryError")
         /\ UNCHANGED attributes
    ELSE /\ attributes' = Append(attributes, Flatten(doc))
         /\ AttrNext

parseAttributes(s, e) ==
  LET e2 == IF e = Unspecified THEN maxTokens ELSE e
  IN  /\ pc = "idle"
      /\ warned' = "none" /\ written' = NoFile
      /\ base' = Len(attributes)
      /\ IF s # 0 /\ s > e2
           THEN Finish("parseAttributes", "returned")
           ELSE /\ pc' = "parseAttributes"
                /\ outcome' = Result("parseAttributes", "running")
                /\ start' = s /\ end' = e2 /\ i' = s
                /\ UNCHANGED tLoc
      /\ UNCHANGED <<chainValue, accs>>

\* the branch for start == 0, with doc the answer of requests.get(...).json():
\* only a decode failure is caught
FetchZero(doc) ==
  /\ pc = "parseAttributes" /\ i = 0
  /\ written' = NoFile
  /\ CASE doc.kind = "abort" ->
            /\ Finish("parseAttributes", "ConnectionAbortedError")
            /\ warned' = "none" /\ UNCHANGED attributes
       [] doc.kind = "nojson" ->
            /\ warned' = "The NFT collection starts from id #1, not id #0."
            /\ UNCHANGED attributes
            /\ AttrNext
       [] doc.kind = "json" /\ ~(doc.hasAttributes /\ doc.hasName) ->
            /\ Finish("parseAttributes", "KeyError")
            /\ warned' = "none" /\ UNCHANGED attributes
       [] OTHER ->
            /\ warned' = "none"
            /\ AttrAppend(doc)
  /\ UNCHANGED <<chainValue, transactions, base>>

\* one iteration of the loop over range(start, end + 1)
FetchLoop(doc) ==
  /\ pc = "parseAttributes" /\ i >= 1
  /\ written' = NoFile
  /\ CASE doc.kind = "abort" ->
            /\ warned' = "The connection has aborted."
            /\ UNCHANGED attributes
            /\ AttrNext
       [] doc.kind = "nojson" ->
            /\ warned' = "Json has not been found."
            /\ UNCHANGED attributes
            /\ AttrNext
       [] doc.kind = "json" /\ ~doc.hasAttributes ->
            /\ warned' = "The parsed json does not contain attributes."
            /\ UNCHANGED attributes
            /\ AttrNext
       [] doc.kind = "json" /\ doc.hasAttributes /\ ~doc.hasName ->
            /\ Finish("parseAttributes", "KeyError")
            /\ warned' = "none" /\ UNCHANGED attributes
       [] OTHER ->
            /\ warned' = "none"
            /\ AttrAppend(doc)
  /\ UNCHANGED <<chainValue, transactions, base>>

\* ---------------------------------------------------- parseTransactions
\* self.web3.eth.getTransaction(tempTransHash)
getTransaction(tempTransHash) == [value |-> chainValue[tempTransHash]]

\* the explorer's answer to page=1&offset=step&startblock=sb&endblock=eb:
\* the first step transfers of blocks sb..eb, both ends included; an empty
\* answer has a failure status
Request(data, step, sb, eb) ==
  LET InRange(t) == sb <= t.blockNumber /\ t.blockNumber <= eb
      found == SelectSeq(data, InRange)
      page  == SubSeq(found, 1, Min(step, Len(found)))
  IN  [status |-> IF page = <<>> THEN "0" ELSE "1", result |-> page]

\* the keep test of the loop body
IsSaleExplorer(rec) == rec.value # 0
IsSale(rec) == getTransaction(rec.hash).value # 0

\* transSale = r['result'][i]; transSale['value'] = tempTransValue
SaleExplorer(rec) == rec
Sale(rec) == [rec EXCEPT !.value = getTransaction(rec.hash).value]

\* for i in range(0, transactionsStep), from position k of the page (k is
\* 1-based) with the list acc; exit says how the loop ended
RECURSIVE ForRecords(_, _, _, _)
ForRecords(result, k, step, acc) ==
  IF k > step THEN [trans |-> acc, exit |-> "full"]
  ELSE IF k > Len(result) THEN [trans |-> acc, exit |-> "IndexError"]
  ELSE IF IsSale(result[k])
         THEN IF Len(attributes) + Len(acc) >= MaxRecords
                THEN [trans |-> acc, exit |-> "MemoryError"]
                ELSE ForRecords(result, k + 1, step, Append(acc, Sale(result[k])))
         ELSE ForRecords(result, k + 1, step, acc)

\* except IndexError: warn and return
EndOfPageRaises ==
  /\ warned' = "none"
  /\ Finish("parseTransactions", "IndexError")

EndOfPage ==
  /\ warned' = "Parser has reached the end of transactions."
  /\ Finish("parseTransactions", "returned")

parseTransactions(step, sb, eb, data) ==
  /\ pc = "idle"
  /\ warned' = "none" /\ written' = NoFile
  /\ base' = Len(transactions)
  /\ IF step > MaxStep
       THEN Finish("parseTransactions", "ValueError")
       ELSE LET eb2 == IF eb = Unspecified THEN block_number ELSE eb
            IN  /\ pc' = "parseTransactions"
                /\ outcome' = Result("parseTransactions", "running")
                /\ transactionsStep' = step
                /\ UNCHANGED aLoc
                /\ startBlock' = sb /\ endBlock' = eb2
                /\ transfers' = data
                /\ r' = Request(data, step, sb, eb2)
                /\ requests' = 1
  /\ UNCHANGED <<chainValue, accs>>

\* one evaluation of the while condition and, if it holds, of the loop body
ProcessPage ==
  /\ pc = "parseTransactions"
  /\ written' = NoFile
  /\ IF r.status # "1"
       THEN /\ Finish("parseTransactions", "TimeoutError")
            /\ warned' = "none"
            /\ UNCHANGED transactions
       ELSE LET done == ForRecords(r.result, 1, transactionsStep, transactions)
            IN  /\ transactions' = done.trans
                /\ CASE done.exit = "IndexError" -> EndOfPage
                     [] done.exit = "MemoryError" ->
                          /\ warned' = "none"
                          /\ Finish("parseTransactions", "MemoryError")
                     [] OTHER ->
                          /\ warned' = "none"
                          /\ startBlock' = r.result[transactionsStep].blockNumber
                          /\ r' = Request(transfers, transactionsStep,
                                          r.result[transactionsStep].blockNumber,
                                          endBlock)
                          /\ requests' = (requests + 1) % RequestWrap
                          /\ UNCHANGED <<pc, outcome, aLoc, transfers,
                                         transactionsStep, endBlock>>
  /\ UNCHANGED <<chainValue, attributes, base>>

\* ---------------------------------------------------------------- export
symbol == "SYM"

\* if folderPath[-1] != '/': folderPath += '/'
Normalised(folderPath) ==
  IF folderPath[Len(folderPath)] # "/" THEN Append(folderPath, "/")
  ELSE folderPath

\* folderPath + "attributes_" + symbol + '.csv'
FileName(folderPath, kind, ext) ==
  [folder |-> folderPath, name |-> <<kind, symbol, ext>>]

Export(op, res, fileName) ==
  /\ pc = "idle"
  /\ Finish(op, res) /\ base' = 0
  /\ written' = fileName
  /\ warned' = "none"
  /\ UNCHANGED <<chainValue, accs>>

attributesToDF(file, folderPath) ==
  IF attributes = <<>> THEN Export("attributesToDF", "KeyError", NoFile)
  ELSE IF ~file THEN Export("attributesToDF", "returned", NoFile)
  ELSE IF folderPath = <<>> THEN Export("attributesToDF", "IndexError", NoFile)
  ELSE Export("attributesToDF", "returned",
              FileName(Normalised(folderPath), "attributes_", ".csv"))

attributesToTextFile(folderPath) ==
  IF folderPath = <<>> THEN Export("attributesToTextFile", "IndexError", NoFile)
  ELSE IF attributes = <<>>
         THEN Export("attributesToTextFile", "KeyError", NoFile)
  ELSE Export("attributesToTextFile", "returned",
              FileName(Normalised(folderPath), "attributes_", ".txt"))

transactionsToDF(file, folderPath) ==
  IF transactions = <<>> THEN Export("transactionsToDF", "KeyError", NoFile)
  ELSE IF ~file THEN Export("transactionsToDF", "returned", NoFile)
  ELSE IF folderPath = <<>> THEN Export("transactionsToDF", "IndexError", NoFile)
  ELSE Export("transactionsToDF", "returned",
              FileName(Normalised(folderPath), "transactions_", ".csv"))

transactionsToTextFile(path) ==
  IF transactions = <<>>
    THEN Export("transactionsToTextFile", "KeyError", NoFile)
  ELSE Export("transactionsToTextFile", "returned",
              FileName(path, "transactions_", ".txt"))

\* ------------------------------------------------------------ the program
Next ==
  \/ cleanAttributes
  \/ cleanTransactions
  \/ \E s \in 0..MaxId : \E e \in (0..MaxId) \cup {Unspecified} :
       parseAttributes(s, e)
  \/ \E doc \in Docs : FetchZero(doc)
  \/ \E doc \in Docs : FetchLoop(doc)
  \/ \E step \in Steps : \E sb \in StartBlocks : \E eb \in EndBlocks :
       \E data \in TransferLists : parseTransactions(step, sb, eb, data)
  \/ ProcessPage
  \/ \E file \in BOOLEAN : \E folderPath \in Folders :
       attributesToDF(file, folderPath)
  \/ \E folderPath \in Folders : attributesToTextFile(folderPath)
  \/ \E file \in BOOLEAN : \E folderPath \in Folders :
       transactionsToDF(file, folderPath)
  \/ \E path \in Folders : transactionsToTextFile(path)

Spec == Init /\ [][Next]_vars

\* the interpreter keeps executing a call that has started
FairSpec == Spec /\ WF_vars(ProcessPage)
                 /\ WF_vars(\E doc \in Docs : FetchZero(doc))
                 /\ WF_vars(\E doc \in Docs : FetchLoop(doc))

\* ================================================================ claims
IsPrefix(s, t) == Len(s) <= Len(t) /\ SubSeq(t, 1, Len(s)) = s

EndWarning == "Parser has reached the end of transactions."

\* what the claims expect of one page: its transfers of nonzero chain value,
\* in page order, each carrying the chain's value
ExpectedSales(page) ==
  LET Nonzero(t) == chainValue[t.hash] # 0
      kept == SelectSeq(page, Nonzero)
  IN  [k \in 1..Len(kept) |->
         [hash |-> kept[k].hash, blockNumber |-> kept[k].blockNumber,
          value |-> chainValue[kept[k].hash]]]

\* memory suffices for the sales of the page
Fits(page) ==
  Len(attributes) + Len(transactions) + Len(ExpectedSales(page)) <= MaxRecords

\* the step is the metadata request of the running parseAttributes call
\* answered by doc
Fetched(doc) == FetchZero(doc) \/ FetchLoop(doc)

\* C1: no record of transactions has an on-chain value of zero, whatever
\* sequence of parseTransactions and cleanTransactions calls produced it.
C1_NoZeroValueSale ==
  \A k \in 1..Len(transactions) : chainValue[transactions[k].hash] # 0

\* reached: a running call has processed a full page of two transfers, the
\* first of chain value zero, and has appended only the second
C1_Witness ==
  /\ pc = "parseTransactions" /\ transactionsStep = 2 /\ Len(transfers) = 2
  /\ chainValue[transfers[1].hash] = 0
  /\ Len(transactions) = base + 1
  /\ transactions[Len(transactions)].hash = transfers[2].hash

\* C2: every page that parseTransactions processes appends exactly the
\* page's transfers of nonzero chain value, in page order, and each appended
\* record's value is the chain's value, not the explorer's.
C2_PageAppendsItsSales ==
  [][ (pc = "parseTransactions" /\ r.status = "1" /\ Fits(r.result))
        => transactions' = transactions \o ExpectedSales(r.result) ]_vars

\* reached: a full page of two transfers, the second of chain value zero, has
\* been processed; the one appended record carries the chain's value, which
\* is not the value the explorer reported
C2_Witness ==
  /\ pc = "parseTransactions" /\ transactionsStep = 2 /\ Len(transfers) = 2
  /\ chainValue[transfers[2].hash] = 0
  /\ Len(transactions) = base + 1
  /\ transactions[Len(transactions)].hash = transfers[1].hash
  /\ transactions[Len(transactions)].value = chainValue[transfers[1].hash]
  /\ transactions[Len(transactions)].value # transfers[1].value

\* C3: each of the four exports, called while its list is empty and with any
\* folder argument, the empty string included, fails with the empty-state
\* error (KeyError) and writes no file.
C3_EmptyExportFails ==
  ( \/ (outcome.op \in {"attributesToDF", "attributesToTextFile"}
          /\ attributes = <<>>)
    \/ (outcome.op \in {"transactionsToDF", "transactionsToTextFile"}
          /\ transactions = <<>>) )
  => (outcome.result = "KeyError" /\ written = NoFile)

\* the answers the collector is to survive: a transport abort, a decode
\* failure, a document without the attributes field
BadDoc(doc) ==
  doc.kind \in {"abort", "nojson"} \/ (doc.kind = "json" /\ ~doc.hasAttributes)

\* C4: in parseAttributes a document without the attributes field, a
\* transport abort or a decode failure, for any id of the range (id 0
\* included), only warns, appends nothing, and the call goes on with the next
\* id, or returns when the id was the last.
C4_BadIdNeverAborts ==
  [][ \A doc \in Docs :
        (BadDoc(doc) /\ Fetched(doc))
          => /\ attributes' = attributes
             /\ warned' # "none"
             /\ IF i < end THEN pc' = "parseAttributes" /\ i' = i + 1
                ELSE outcome' = Result("parseAttributes", "returned") ]_vars

\* a name of the trait list maps to the value of its last entry
LastWins(traits) ==
  LET last(k) == CHOOSE j \in 1..Len(traits) :
                   /\ traits[j].trait_type = k
                   /\ \A j2 \in (j + 1)..Len(traits) : traits[j2].trait_type # k
  IN  [k \in {traits[j].trait_type : j \in 1..Len(traits)} |->
         traits[last(k)].value]

\* C5: the record appended for a token maps every trait name to the value of
\* the last entry of that name in the token's trait list, the synthetic Name
\* trait being the last entry of the list.
C5_LastValueWins ==
  [][ \A doc \in Docs :
        (Fetched(doc) /\ Len(attributes') = Len(attributes) + 1)
          => attributes'[Len(attributes')] = << LastWins(WithName(doc)) >> ]_vars

\* C6: a parseAttributes(start, end) call with start <= end on an empty list
\* leaves at most end - start + 1 records, and every record has a "Name" key
\* whose value is the display name of the token it was built from.
C6_CountAndName ==
  [][ (pc = "parseAttributes" /\ start <= end /\ base = 0)
        => /\ Len(attributes') <= end - start + 1
           /\ \A doc \in Docs :
                (Fetched(doc) /\ Len(attributes') = Len(attributes) + 1)
                  => LET rec == attributes'[Len(attributes')][1]
                     IN  "Name" \in DOMAIN rec /\ rec["Name"] = doc.name ]_vars

\* C7: a page of success status with fewer than transactionsStep records is
\* processed in full, the end-of-transactions warning is emitted and the call
\* returns normally; with the call over, no further page is requested.
C7_ShortPageReturns ==
  [][ (pc = "parseTransactions" /\ r.status = "1"
         /\ Len(r.result) < transactionsStep /\ Fits(r.result))
        => /\ transactions' = transactions \o ExpectedSales(r.result)
           /\ warned' = EndWarning
           /\ outcome' = Result("parseTransactions", "returned")
           /\ pc' = "idle" ]_vars

\* reached: a call that appended sales has met a short page, warned and
\* returned
C7_Witness ==
  /\ outcome = Result("parseTransactions", "returned")
  /\ warned = EndWarning
  /\ Len(transactions) > base

\* C8: every step of an operation other than the two clean operations, a
\* collector call that ends in an error included, keeps the previous contents
\* of both lists as a prefix of the new contents; cleanAttributes empties
\* attributes and leaves transactions alone, cleanTransactions the reverse.
C8_OnlyCleanRemoves ==
  [][ /\ outcome'.op = "cleanAttributes"
           => attributes' = <<>> /\ transactions' = transactions
      /\ outcome'.op = "cleanTransactions"
           => transactions' = <<>> /\ attributes' = attributes
      /\ outcome'.op \notin {"cleanAttributes", "cleanTransactions"}
           => /\ IsPrefix(attributes, attributes')
              /\ IsPrefix(transactions, transactions') ]_vars

\* reached: a parseTransactions call has raised TimeoutError while both lists
\* held records, and both still hold them
C8_Witness ==
  /\ outcome = Result("parseTransactions", "TimeoutError")
  /\ attributes # <<>> /\ transactions # <<>>

\* C9: every parseTransactions call with a step in 1..10000 eventually
\* finishes, by returning or by raising.
C9_CallFinishes == (pc = "parseTransactions") ~> (pc = "idle")

\* C10: within one parseTransactions call no transfer of the explorer's list
\* is appended twice.
C10_NoDuplicateInCall ==
  outcome.op = "parseTransactions"
    => \A j \in (base + 1)..Len(transactions) :
         \A k \in (base + 1)..Len(transactions) :
           j # k => transactions[j].hash # transactions[k].hash

====
